---- MODULE Spec2Model ----
(***************************************************************************)
(* A model of Document::merge (src/src/doc/merge.rs) and of the SELECT     *)
(* statement (src/src/sql/statements/select.rs): its compute entry point,  *)
(* its limit()/start() accessors, its parser and its Display.              *)
(*                                                                         *)
(* Collaborators whose code is not part of the sources at hand (Value's    *)
(* def/del/set/increment/decrement/patch/merge/replace, expression         *)
(* evaluation, Options::check, the Iterator, the clause parsers) are       *)
(* modelled from the specification text and are marked so where defined.   *)
(***************************************************************************)
EXTENDS Integers, Sequences, FiniteSets, TLC

\* ------------------------------------------------------------------ bounds
\* The longest SetExpression clause (number of triples).
MaxTriples == 2
\* The largest number of targets of a SELECT.
MaxTargets == 2
\* The largest START offset of a SELECT.
MaxStart == 3

\* ------------------------------------------------------------------- state
\* Document::merge
VARIABLES
  doc,      \* the Document: its id and its current and original slices
  data,     \* the data clause of the statement, as far as merge has read it
  mpc,      \* where merge stands
  mk,       \* the index of the SetExpression triple at hand
  mval,     \* the value computed for the triple at hand
  mlog,     \* the calls merge made so far in this run, with their outcomes
  mres,     \* what merge returned
  mrun,     \* 1 in the first run of merge on the document, 2 in the second
  entry,    \* the document as it was when this run was entered
  firstOut, \* the current slice the first run returned
  firstLog, \* the log of the first run
  stm       \* the kind of the statement merge was called with

mvars == <<doc, data, mpc, mk, mval, mlog, mres, mrun, entry, firstOut, firstLog, stm>>

\* SelectStatement::compute
VARIABLES
  sel,        \* the SelectStatement; its targets as far as the loop read them
  copt,       \* the Options compute was given
  dopt,       \* the Options compute derived
  cancelled,  \* the Runtime's cancellation signal
  it,         \* the Iterator
  spc,        \* where compute stands
  slog,       \* the calls compute made so far, with their outcomes, and the trip
  sres        \* what compute returned

svars == <<sel, copt, dopt, cancelled, it, spc, slog, sres>>

\* select and Display: a text is parsed and the statement is formatted
VARIABLES
  input,    \* how the input text was written
  text,     \* the input text: its words, and a " " for every space
  rpc,      \* "parse", "format" or "done"
  parsed,   \* what select returned: ok or not, the rest of the text, the statement
  out       \* the text Display wrote

rvars == <<input, text, rpc, parsed, out>>

vars == <<mvars, svars, rvars>>

\* ------------------------------------------------------------------ values
\* Every value is a record of the same shape, so that any two compare.
Void == [t |-> "void", n |-> 0]
Absent == [t |-> "absent", n |-> 0]
Num(n) == [t |-> "num", n |-> n]
Thing(n) == [t |-> "thing", n |-> n]

IsNum(v) == v.t = "num"

\* The field names of a document body; a path is one field name.
Fields == {"id", "a", "b"}

\* An object maps each field name to its value, or to Absent.
EmptyObj == [f \in Fields |-> Absent]
Obj1(f, v) == [EmptyObj EXCEPT ![f] = v]
Obj2(f, v, g, w) == [EmptyObj EXCEPT ![f] = v, ![g] = w]

\* Reading a field that is not there gives void.
Get(o, f) == IF o[f] = Absent THEN Void ELSE o[f]

\* ---------------------------------------------- Value's mutation operations
\* Value::del: the field at the path is removed.
Del(o, f) == [o EXCEPT ![f] = Absent]

\* Value::set: the field at the path holds the value.
Set(o, f, v) == [o EXCEPT ![f] = v]

\* Value::increment: numeric addition; a missing field counts from zero.
Increment(o, f, v) ==
  IF ~IsNum(v) THEN o
  ELSE IF o[f] = Absent THEN Set(o, f, v)
  ELSE IF IsNum(o[f]) THEN Set(o, f, Num(o[f].n + v.n))
  ELSE o

\* Value::decrement: the inverse of increment.
Decrement(o, f, v) ==
  IF ~IsNum(v) THEN o
  ELSE IF o[f] = Absent THEN Set(o, f, Num(0 - v.n))
  ELSE IF IsNum(o[f]) THEN Set(o, f, Num(o[f].n - v.n))
  ELSE o

\* Value::merge: key union, the right-hand value wins.
MergeObj(o, v) == [f \in Fields |-> IF v[f] = Absent THEN o[f] ELSE v[f]]

\* Value::replace: the whole body is the given value.
Replace(o, v) == v

\* One operation of a patch, and Value::patch applying the list in order.
PatchOp(o, p) ==
  IF p.op = "remove" THEN Del(o, p.path) ELSE Set(o, p.path, p.value)

RECURSIVE Patch(_, _)
Patch(o, ops) ==
  IF ops = <<>> THEN o ELSE Patch(PatchOp(o, Head(ops)), Tail(ops))

\* Value::def: the system-maintained fields (the identity) are populated.
Def(o, id) == IF id = Absent THEN o ELSE Set(o, "id", id)

\* ------------------------------------------------------- expressions
\* A literal, or a reference to a field of the context document.
Lit(v) == [e |-> "lit", v |-> v, f |-> "a"]
FieldRef(f) == [e |-> "field", v |-> Void, f |-> f]

\* Value::compute of an expression against the context document.
Compute(x, cur) == IF x.e = "lit" THEN x.v ELSE Get(cur, x.f)

\* =================================================================
\* Document::merge
\* =================================================================

\* The errors a fallible call returns, and the outcomes of such a call.
Errors == {"Cancelled", "Storage"}
Outcomes == {"ok"} \cup Errors

NoResult == [tag |-> "None", err |-> ""]
Ok == [tag |-> "Ok", err |-> ""]
Err(e) == [tag |-> "Err", err |-> e]
Panic == [tag |-> "Panic", err |-> "unreachable"]

\* The inputs: documents, statements, data clauses.
Ids == {Absent, Thing(1)}
Bodies == {Obj1("a", Num(1)), Obj1("b", Num(2))}
Kinds == {"Create", "Update", "Other"}
Tags == {"None", "Set", "Patch", "Merge", "Replace", "Content", "Other"}
Ops == {"Equal", "Inc", "Dec", "Other"}
Exprs == {Lit(Void), Lit(Num(2)), FieldRef("a")}
Paths == {"id", "a"}
Triples == [path : Paths, op : Ops, expr : Exprs]
Objs == {Obj1("b", Num(2)), Obj1("a", Num(3))}
Patches ==
  { <<[op |-> "remove", path |-> "a", value |-> Void]>>,
    <<[op |-> "add", path |-> "b", value |-> Num(2)],
      [op |-> "remove", path |-> "a", value |-> Void]>> }

NoData == [tag |-> "None", triples |-> <<>>, val |-> EmptyObj, ops |-> <<>>]

\* A slip: the error of a fallible call is dropped and merge carries on.
FailedNever(r) == FALSE

\* The `?` after a fallible call: an error is returned to the caller at once.
Failed(r) == r # "ok"

\* A slip: the write goes through to the original slice as well.
WriteBoth(d, v) == [d EXCEPT !.current = v, !.original = v]

\* self.current.to_mut(): a write goes to the current slice alone.
WriteCurrent(d, v) == [d EXCEPT !.current = v]

\* A log entry: the call, the triple it belongs to (0: none), its outcome and,
\* for an evaluation, the value computed.
Entry(step, k, r, v) == [step |-> step, k |-> k, res |-> r, v |-> v]
Logged(step, k, r) == Append(mlog, Entry(step, k, r, Void))

\* A fallible call that rewrites current to `new`, followed by `?`.  A call
\* that fails leaves current as it was or as far as it got.
Mutate(step, k, r, new, okpc) ==
  /\ mlog' = Logged(step, k, r)
  /\ IF Failed(r)
       THEN /\ mpc' = "done"
            /\ mres' = Err(r)
            /\ \E part \in {doc.current, new} : doc' = WriteCurrent(doc, part)
       ELSE /\ mpc' = okpc
            /\ mres' = mres
            /\ doc' = WriteCurrent(doc, new)

\* A slip: Equal stores a void result instead of deleting the field.
ApplyOpNoDel(cur, path, op, v) ==
  CASE op = "Equal" -> Set(cur, path, v)
    [] op = "Inc" -> Increment(cur, path, v)
    [] op = "Dec" -> Decrement(cur, path, v)

\* A slip: Inc stores the value instead of adding it.
ApplyOpIncSets(cur, path, op, v) ==
  CASE op = "Equal" -> IF v = Void THEN Del(cur, path) ELSE Set(cur, path, v)
    [] op = "Inc" -> Set(cur, path, v)
    [] op = "Dec" -> Decrement(cur, path, v)

\* The operator of a SetExpression triple applied to current.
ApplyOp(cur, path, op, v) ==
  CASE op = "Equal" -> IF v = Void THEN Del(cur, path) ELSE Set(cur, path, v)
    [] op = "Inc" -> Increment(cur, path, v)
    [] op = "Dec" -> Decrement(cur, path, v)

\* The data clause a statement carries.
DataOf(tag, v, p) ==
  [tag |-> tag, triples |-> <<>>,
   val |-> IF tag \in {"Merge", "Replace", "Content"} THEN v ELSE EmptyObj,
   ops |-> IF tag = "Patch" THEN p ELSE <<>>]

\* merge is entered with a statement, whose data clause is extracted; a
\* statement that is neither Create nor Update is unreachable.
Call ==
  /\ mpc = "idle"
  /\ \E kind \in Kinds, tag \in Tags, v \in Objs, p \in Patches :
       /\ IF kind \in {"Create", "Update"}
            THEN data' = DataOf(tag, v, p) /\ mpc' = "def1" /\ mres' = NoResult
            ELSE data' = data /\ mpc' = "done" /\ mres' = Panic
       /\ stm' = kind
  /\ entry' = doc
  /\ mlog' = <<>>
  /\ mk' = 0
  /\ UNCHANGED <<doc, mval, mrun, firstOut, firstLog>>
  /\ UNCHANGED <<svars, rvars>>

\* The first pass of the field defaults.
Def1 ==
  /\ mpc = "def1"
  /\ \E r \in Outcomes : Mutate("def", 0, r, Def(doc.current, doc.id), "data")
  /\ UNCHANGED <<data, mk, mval, mrun, entry, firstOut, firstLog, stm>>
  /\ UNCHANGED <<svars, rvars>>

\* A slip: a missing data clause empties the document.
DataNoneClears ==
  /\ mpc = "data" /\ data.tag = "None"
  /\ mpc' = "def2"
  /\ doc' = WriteCurrent(doc, EmptyObj)
  /\ UNCHANGED <<data, mk, mval, mlog, mres, mrun, entry, firstOut, firstLog, stm>>
  /\ UNCHANGED <<svars, rvars>>

\* No data clause has been set.
DataNone ==
  /\ mpc = "data" /\ data.tag = "None"
  /\ mpc' = "def2"
  /\ UNCHANGED <<doc, data, mk, mval, mlog, mres, mrun, entry, firstOut, firstLog, stm>>
  /\ UNCHANGED <<svars, rvars>>

\* The loop takes the next triple of the clause.  In the first run the clause
\* is read as the loop consumes it; the second run reads the same clause.
SetTake ==
  /\ mpc = "data" /\ data.tag = "Set"
  /\ IF mrun = 1
       THEN /\ Len(data.triples) < MaxTriples
            /\ \E x \in Triples : data' = [data EXCEPT !.triples = Append(@, x)]
       ELSE /\ mk < Len(data.triples)
            /\ data' = data
  /\ mk' = mk + 1
  /\ mpc' = "eval"
  /\ UNCHANGED <<doc, mval, mlog, mres, mrun, entry, firstOut, firstLog, stm>>
  /\ UNCHANGED <<svars, rvars>>

\* The clause has no further triple.
SetEnd ==
  /\ mpc = "data" /\ data.tag = "Set"
  /\ mk = Len(data.triples)
  /\ mpc' = "def2"
  /\ UNCHANGED <<doc, data, mk, mval, mlog, mres, mrun, entry, firstOut, firstLog, stm>>
  /\ UNCHANGED <<svars, rvars>>

\* A slip: the expression is computed against the document as it was when
\* merge was entered.
EvalAtEntry ==
  /\ mpc = "eval"
  /\ \E r \in Outcomes :
       /\ mlog' = Append(mlog, Entry("eval", mk, r,
                     IF r = "ok" THEN Compute(data.triples[mk].expr, entry.current) ELSE Void))
       /\ IF Failed(r)
            THEN mpc' = "done" /\ mres' = Err(r) /\ mval' = mval
            ELSE /\ mpc' = "apply"
                 /\ mres' = mres
                 /\ mval' = Compute(data.triples[mk].expr, entry.current)
  /\ UNCHANGED <<doc, data, mk, mrun, entry, firstOut, firstLog, stm>>
  /\ UNCHANGED <<svars, rvars>>

\* The expression of the triple at hand is computed against current.
Eval ==
  /\ mpc = "eval"
  /\ \E r \in Outcomes :
       /\ mlog' = Append(mlog, Entry("eval", mk, r,
                     IF r = "ok" THEN Compute(data.triples[mk].expr, doc.current) ELSE Void))
       /\ IF Failed(r)
            THEN mpc' = "done" /\ mres' = Err(r) /\ mval' = mval
            ELSE /\ mpc' = "apply"
                 /\ mres' = mres
                 /\ mval' = Compute(data.triples[mk].expr, doc.current)
  /\ UNCHANGED <<doc, data, mk, mrun, entry, firstOut, firstLog, stm>>
  /\ UNCHANGED <<svars, rvars>>

\* A slip: a triple with an operator other than =, += and -= is skipped.
ApplySkipsOther ==
  /\ mpc = "apply"
  /\ LET x == data.triples[mk] IN
       IF x.op \in {"Equal", "Inc", "Dec"}
         THEN \E r \in Outcomes :
                Mutate("apply", mk, r, ApplyOp(doc.current, x.path, x.op, mval), "data")
         ELSE /\ mpc' = "data"
              /\ UNCHANGED <<doc, mlog, mres>>
  /\ UNCHANGED <<data, mk, mval, mrun, entry, firstOut, firstLog, stm>>
  /\ UNCHANGED <<svars, rvars>>

\* The operator of the triple at hand is applied.
Apply ==
  /\ mpc = "apply"
  /\ LET x == data.triples[mk] IN
       IF x.op \in {"Equal", "Inc", "Dec"}
         THEN \E r \in Outcomes :
                Mutate("apply", mk, r, ApplyOp(doc.current, x.path, x.op, mval), "data")
         ELSE /\ mpc' = "done"
              /\ mres' = Panic
              /\ UNCHANGED <<doc, mlog>>
  /\ UNCHANGED <<data, mk, mval, mrun, entry, firstOut, firstLog, stm>>
  /\ UNCHANGED <<svars, rvars>>

DataPatch ==
  /\ mpc = "data" /\ data.tag = "Patch"
  /\ \E r \in Outcomes : Mutate("patch", 0, r, Patch(doc.current, data.ops), "def2")
  /\ UNCHANGED <<data, mk, mval, mrun, entry, firstOut, firstLog, stm>>
  /\ UNCHANGED <<svars, rvars>>

DataMerge ==
  /\ mpc = "data" /\ data.tag = "Merge"
  /\ \E r \in Outcomes : Mutate("merge", 0, r, MergeObj(doc.current, data.val), "def2")
  /\ UNCHANGED <<data, mk, mval, mrun, entry, firstOut, firstLog, stm>>
  /\ UNCHANGED <<svars, rvars>>

DataReplace ==
  /\ mpc = "data" /\ data.tag = "Replace"
  /\ \E r \in Outcomes : Mutate("replace", 0, r, Replace(doc.current, data.val), "def2")
  /\ UNCHANGED <<data, mk, mval, mrun, entry, firstOut, firstLog, stm>>
  /\ UNCHANGED <<svars, rvars>>

\* A slip: a ContentExpression is merged into the document.
DataContentMerges ==
  /\ mpc = "data" /\ data.tag = "Content"
  /\ \E r \in Outcomes : Mutate("replace", 0, r, MergeObj(doc.current, data.val), "def2")
  /\ UNCHANGED <<data, mk, mval, mrun, entry, firstOut, firstLog, stm>>
  /\ UNCHANGED <<svars, rvars>>

DataContent ==
  /\ mpc = "data" /\ data.tag = "Content"
  /\ \E r \in Outcomes : Mutate("replace", 0, r, Replace(doc.current, data.val), "def2")
  /\ UNCHANGED <<data, mk, mval, mrun, entry, firstOut, firstLog, stm>>
  /\ UNCHANGED <<svars, rvars>>

\* Any other data clause.
DataOther ==
  /\ mpc = "data" /\ data.tag = "Other"
  /\ mpc' = "done"
  /\ mres' = Panic
  /\ UNCHANGED <<doc, data, mk, mval, mlog, mrun, entry, firstOut, firstLog, stm>>
  /\ UNCHANGED <<svars, rvars>>

\* A slip: the second pass of the field defaults is left out.
Def2Skipped ==
  /\ mpc = "def2"
  /\ mpc' = "ret"
  /\ UNCHANGED <<doc, data, mk, mval, mlog, mres, mrun, entry, firstOut, firstLog, stm>>
  /\ UNCHANGED <<svars, rvars>>

\* The second pass of the field defaults.
Def2 ==
  /\ mpc = "def2"
  /\ \E r \in Outcomes : Mutate("def", 0, r, Def(doc.current, doc.id), "ret")
  /\ UNCHANGED <<data, mk, mval, mrun, entry, firstOut, firstLog, stm>>
  /\ UNCHANGED <<svars, rvars>>

\* Carry on.
Return ==
  /\ mpc = "ret"
  /\ mpc' = "done"
  /\ mres' = Ok
  /\ UNCHANGED <<doc, data, mk, mval, mlog, mrun, entry, firstOut, firstLog, stm>>
  /\ UNCHANGED <<svars, rvars>>

\* merge is called a second time, with the same data clause, on the document
\* the first run left.
Rerun ==
  /\ mpc = "done" /\ mres = Ok /\ mrun = 1
  /\ mrun' = 2
  /\ firstOut' = doc.current
  /\ firstLog' = mlog
  /\ entry' = doc
  /\ mlog' = <<>>
  /\ mk' = 0
  /\ mpc' = "def1"
  /\ mres' = NoResult
  /\ UNCHANGED <<doc, data, mval, stm>>
  /\ UNCHANGED <<svars, rvars>>

\* =================================================================
\* SelectStatement: limit(), start() and compute
\* =================================================================

\* Option<Limit>, Option<Start>.
None == [some |-> FALSE, v |-> 0]
Some(n) == [some |-> TRUE, v |-> n]

\* SelectStatement::limit
StmtLimit(st) == IF st.limit.some THEN st.limit.v ELSE 0

\* SelectStatement::start
StmtStart(st) == IF st.start.some THEN st.start.v ELSE 0

\* Options::check: the level of the caller allows the statement, or not.
Check(o) == IF o.perm THEN "ok" ELSE "Permission"

\* Options::futures: a new Options value.
Futures(o, b) == [o EXCEPT !.futures = b]

\* The kinds of value a target computes to.
ValueKinds == {"Table", "Thing", "Model", "Array", "Other"}

\* The value of the k-th target.
TargetValue(kind, k) == [kind |-> kind, src |-> k]

\* Value::compute of a target: the cancellation signal is checked at entry;
\* the evaluation may fail.
TargetOutcomes(c) == IF c THEN {"Cancelled"} ELSE {"ok", "Storage"}

\* Iterator::new
NewIterator ==
  [stmt |-> FALSE, split |-> FALSE, group |-> FALSE, order |-> FALSE,
   limit |-> None, start |-> None, fetch |-> FALSE, sources |-> <<>>]

\* A slip: the START clause is not passed to the iterator.
WiredNoStart(st) ==
  [NewIterator EXCEPT !.stmt = TRUE, !.split = st.split, !.group = st.group,
                      !.order = st.order, !.limit = st.limit]

\* The statement and its configuration as compute passes them in.
Wired(st) ==
  [NewIterator EXCEPT !.stmt = TRUE, !.split = st.split, !.group = st.group,
                      !.order = st.order, !.limit = st.limit, !.start = st.start]

\* Iterator::prepare: one source is registered, unresolved.
Prepare(i, v) == [i EXCEPT !.sources = Append(@, v)]

\* A slip: a value that is no table, record id, model or array is dropped.
PrepareByKindDropsOther(i, v) ==
  CASE v.kind = "Table" -> Prepare(i, v)
    [] v.kind = "Thing" -> Prepare(i, v)
    [] v.kind = "Model" -> Prepare(i, v)
    [] v.kind = "Array" -> Prepare(i, v)
    [] OTHER -> i

\* The match on the computed value.
PrepareByKind(i, v) ==
  CASE v.kind = "Table" -> Prepare(i, v)
    [] v.kind = "Thing" -> Prepare(i, v)
    [] v.kind = "Model" -> Prepare(i, v)
    [] v.kind = "Array" -> Prepare(i, v)
    [] OTHER -> Prepare(i, v)

\* ---------------------------------------------- the Iterator's output
Row(src, n) == [src |-> src, n |-> n, fetched |-> FALSE]

\* What a source contributes: the records of a table or a model, the
\* elements of an array, the record of a record id, the value itself.
Resolve(v) ==
  IF v.kind \in {"Table", "Array"} THEN <<Row(v.src, 1), Row(v.src, 2)>>
  ELSE <<Row(v.src, 1)>>

RECURSIVE Accumulate(_)
Accumulate(srcs) ==
  IF srcs = <<>> THEN <<>> ELSE Resolve(Head(srcs)) \o Accumulate(Tail(srcs))

Drop(rows, n) == SubSeq(rows, n + 1, Len(rows))
Take(rows, n) == SubSeq(rows, 1, IF n < Len(rows) THEN n ELSE Len(rows))

\* Split: one row per element of the split field (the rows hold scalars).
SplitRows(rows) == rows

\* Group: one row per key, the key being the source.
GroupRows(rows) ==
  SelectSeq([i \in 1..Len(rows) |->
               IF \E j \in 1..(i-1) : rows[j].src = rows[i].src
                 THEN Row(0, 0) ELSE rows[i]],
            LAMBDA r : r.src # 0)

\* Order: ascending on n, then on the source.
OrderRows(rows) ==
  SortSeq(rows, LAMBDA r, q : r.n < q.n \/ (r.n = q.n /\ r.src < q.src))

\* Start: the offset; no clause is offset 0.
StartRows(rows, st) == IF st.some THEN Drop(rows, st.v) ELSE rows

\* Limit: the count; no clause, or a limit of zero, is unlimited.
LimitRows(rows, l) == IF l.some /\ l.v # 0 THEN Take(rows, l.v) ELSE rows

\* Fetch: a record id is replaced by the record it references.
FetchRows(rows) == [i \in 1..Len(rows) |-> [rows[i] EXCEPT !.fetched = TRUE]]

\* The stages the iterator's configuration asks for, in their fixed order.
Stages(i) ==
     (IF i.split THEN <<"split">> ELSE <<>>)
  \o (IF i.group THEN <<"group">> ELSE <<>>)
  \o (IF i.order THEN <<"order">> ELSE <<>>)
  \o (IF i.start.some THEN <<"start">> ELSE <<>>)
  \o (IF i.limit.some THEN <<"limit">> ELSE <<>>)
  \o (IF i.fetch THEN <<"fetch">> ELSE <<>>)

\* The rows before pagination.
Sorted(i) ==
  LET r0 == Accumulate(i.sources)
      r1 == IF i.split THEN SplitRows(r0) ELSE r0
      r2 == IF i.group THEN GroupRows(r1) ELSE r1
  IN  IF i.order THEN OrderRows(r2) ELSE r2

\* The rows the iterator returns.
Shaped(i) ==
  LET r4 == StartRows(Sorted(i), i.start)
      r5 == LimitRows(r4, i.limit)
  IN  IF i.fetch THEN FetchRows(r5) ELSE r5

\* The signal is checked at the top of every stage.  A trip while output
\* runs is seen by a later stage (as a trip before output) or by none (as a
\* trip after it).
OutputOutcomes(i, c) ==
  IF c /\ Stages(i) # <<>> THEN {"Cancelled"} ELSE {"ok", "Storage"}

NoValue == [tag |-> "None", err |-> "", rows |-> <<>>]
ValueOf(rows) == [tag |-> "Value", err |-> "", rows |-> rows]
ErrorOf(e) == [tag |-> "Err", err |-> e, rows |-> <<>>]

\* A slip: an error of a call is dropped and compute carries on.
SFailedNever(r) == FALSE

\* The `?` after a fallible call of compute.
SFailed(r) == r # "ok"

\* A log entry: the call, the target it belongs to (0: none), its outcome,
\* the Options it was given and whether the signal was tripped at the call.
SEntry(step, k, r, o) ==
  [step |-> step, k |-> k, res |-> r, opt |-> o, c |-> cancelled]

\* The Runtime's signal is tripped, before or while compute runs; the log
\* keeps how many targets had been computed by then.
Trip ==
  /\ spc # "done" /\ ~cancelled
  /\ cancelled' = TRUE
  /\ slog' = Append(slog, SEntry("trip", Len(sel.what), "ok", dopt))
  /\ UNCHANGED <<sel, copt, dopt, it, spc, sres>>
  /\ UNCHANGED <<mvars, rvars>>

\* A slip: the outcome of the check is not looked at.
SCheckUnchecked ==
  /\ spc = "check"
  /\ slog' = Append(slog, SEntry("check", 0, Check(copt), copt))
  /\ spc' = "wire"
  /\ UNCHANGED <<sel, copt, dopt, cancelled, it, sres>>
  /\ UNCHANGED <<mvars, rvars>>

\* Allowed to run?
SCheck ==
  /\ spc = "check"
  /\ LET r == Check(copt) IN
       /\ slog' = Append(slog, SEntry("check", 0, r, copt))
       /\ IF SFailed(r)
            THEN spc' = "done" /\ sres' = ErrorOf(r)
            ELSE spc' = "wire" /\ sres' = sres
  /\ UNCHANGED <<sel, copt, dopt, cancelled, it>>
  /\ UNCHANGED <<mvars, rvars>>

\* A slip: futures are switched on in the caller's Options.
SWireInPlace ==
  /\ spc = "wire"
  /\ it' = Wired(sel)
  /\ copt' = Futures(copt, TRUE)
  /\ dopt' = Futures(copt, TRUE)
  /\ spc' = "loop"
  /\ UNCHANGED <<sel, cancelled, slog, sres>>
  /\ UNCHANGED <<mvars, rvars>>

\* The iterator is created and configured; futures are switched on.
SWire ==
  /\ spc = "wire"
  /\ it' = Wired(sel)
  /\ dopt' = Futures(copt, TRUE)
  /\ spc' = "loop"
  /\ UNCHANGED <<sel, copt, cancelled, slog, sres>>
  /\ UNCHANGED <<mvars, rvars>>

\* A loop that logs a failed target and goes on to the next one.
SLoopSkipsFailed ==
  /\ spc = "loop" /\ Len(sel.what) < sel.n
  /\ \E kind \in ValueKinds :
       LET k == Len(sel.what) + 1
           v == TargetValue(kind, k)
       IN  /\ sel' = [sel EXCEPT !.what = Append(@, kind)]
           /\ \E r \in TargetOutcomes(cancelled) :
                IF SFailed(r)
                  THEN /\ slog' = Append(slog, SEntry("compute", k, r, dopt))
                       /\ it' = it
                  ELSE /\ slog' = Append(Append(slog, SEntry("compute", k, r, dopt)),
                                         SEntry("prepare", k, "ok", dopt))
                       /\ it' = PrepareByKind(it, v)
  /\ UNCHANGED <<spc, sres, copt, dopt, cancelled>>
  /\ UNCHANGED <<mvars, rvars>>

\* One pass of the loop over the targets: the target is computed and the
\* value is prepared on the iterator.
SLoop ==
  /\ spc = "loop" /\ Len(sel.what) < sel.n
  /\ \E kind \in ValueKinds :
       LET k == Len(sel.what) + 1
           v == TargetValue(kind, k)
       IN  /\ sel' = [sel EXCEPT !.what = Append(@, kind)]
           /\ \E r \in TargetOutcomes(cancelled) :
                IF SFailed(r)
                  THEN /\ slog' = Append(slog, SEntry("compute", k, r, dopt))
                       /\ spc' = "done"
                       /\ sres' = ErrorOf(r)
                       /\ it' = it
                  ELSE /\ slog' = Append(Append(slog, SEntry("compute", k, r, dopt)),
                                         SEntry("prepare", k, "ok", dopt))
                       /\ spc' = spc
                       /\ sres' = sres
                       /\ it' = PrepareByKind(it, v)
  /\ UNCHANGED <<copt, dopt, cancelled>>
  /\ UNCHANGED <<mvars, rvars>>

\* Output the results.
SOutput ==
  /\ spc = "loop" /\ Len(sel.what) = sel.n
  /\ \E r \in OutputOutcomes(it, cancelled) :
       /\ slog' = Append(slog, SEntry("output", 0, r, dopt))
       /\ sres' = IF r = "ok" THEN ValueOf(Shaped(it)) ELSE ErrorOf(r)
  /\ spc' = "done"
  /\ UNCHANGED <<sel, copt, dopt, cancelled, it>>
  /\ UNCHANGED <<mvars, rvars>>

Bools == {TRUE, FALSE}
Limits == {None, Some(0), Some(1)}
Starts == {None} \cup {Some(n) : n \in 0..MaxStart}

\* =================================================================
\* select (the parser) and Display for SelectStatement
\* =================================================================
\* The lower-case spelling of a keyword.
Lower(w) ==
  CASE w = "SELECT" -> "select" [] w = "FROM" -> "from"
    [] w = "WHERE" -> "where" [] w = "SPLIT" -> "split" [] w = "ON" -> "on"
    [] w = "GROUP" -> "group" [] w = "BY" -> "by" [] w = "ORDER" -> "order"
    [] w = "LIMIT" -> "limit" [] w = "START" -> "start"
    [] w = "FETCH" -> "fetch" [] w = "VERSION" -> "version"
    [] w = "TIMEOUT" -> "timeout"

\* The keywords of each clause and the words each clause may hold.
ClauseNames ==
  <<"cond", "split", "group", "order", "limit", "start", "fetch", "version", "timeout">>
ClauseWords(c) ==
  CASE c = "cond" -> <<"WHERE">> [] c = "split" -> <<"SPLIT", "ON">>
    [] c = "group" -> <<"GROUP", "BY">> [] c = "order" -> <<"ORDER", "BY">>
    [] c = "limit" -> <<"LIMIT">> [] c = "start" -> <<"START">>
    [] c = "fetch" -> <<"FETCH">> [] c = "version" -> <<"VERSION">>
    [] c = "timeout" -> <<"TIMEOUT">>
FieldWords == {"*", "name", "order"}
TargetWords == {"test", "order", "test:thingy", "$test"}
ArgWords(c) ==
  CASE c \in {"limit", "start"} -> {"1", "2"}
    [] c = "version" -> {"2021"}
    [] c = "timeout" -> {"5s"}
    [] OTHER -> {"name", "order"}

\* Option<clause>
NoClause == [some |-> FALSE, v |-> ""]
SomeClause(w) == [some |-> TRUE, v |-> w]

Parsed(i, v) == [ok |-> TRUE, rest |-> i, v |-> v]
NotParsed(i) == [ok |-> FALSE, rest |-> i, v |-> ""]

\* tag_no_case
TagNoCase(kw, i) ==
  IF i # <<>> /\ Head(i) \in {kw, Lower(kw)} THEN Parsed(Tail(i), kw) ELSE NotParsed(i)

\* shouldbespace: at least one space
RECURSIVE SkipSpaces(_)
SkipSpaces(i) == IF i # <<>> /\ Head(i) = " " THEN SkipSpaces(Tail(i)) ELSE i
ShouldBeSpace(i) ==
  IF i # <<>> /\ Head(i) = " " THEN Parsed(SkipSpaces(i), " ") ELSE NotParsed(i)

\* One word out of a set: a field, a target, the argument of a clause.
Word(set, i) ==
  IF i # <<>> /\ Head(i) \in set THEN Parsed(Tail(i), Head(i)) ELSE NotParsed(i)

\* The keywords of a clause, a space between two.
RECURSIVE Keywords(_, _)
Keywords(kws, i) ==
  LET t == TagNoCase(Head(kws), i) IN
    IF ~t.ok THEN NotParsed(i)
    ELSE IF Len(kws) = 1 THEN t
    ELSE LET sp == ShouldBeSpace(t.rest) IN
           IF ~sp.ok THEN NotParsed(i)
           ELSE LET r == Keywords(Tail(kws), sp.rest) IN
                  IF r.ok THEN r ELSE NotParsed(i)

\* The parser of one clause: its keywords, a space, its argument.
Clause(c, i) ==
  LET k == Keywords(ClauseWords(c), i)
      sp == ShouldBeSpace(k.rest)
      a == Word(ArgWords(c), sp.rest)
  IN  IF k.ok /\ sp.ok /\ a.ok THEN a ELSE NotParsed(i)

\* opt(preceded(shouldbespace, clause))
OptPreceded(c, i) ==
  LET sp == ShouldBeSpace(i)
      r == Clause(c, sp.rest)
  IN  IF sp.ok /\ r.ok THEN Parsed(r.rest, SomeClause(r.v)) ELSE Parsed(i, NoClause)

NoStatement ==
  [expr |-> "", what |-> "", cond |-> NoClause, split |-> NoClause,
   group |-> NoClause, order |-> NoClause, limit |-> NoClause,
   start |-> NoClause, fetch |-> NoClause, version |-> NoClause,
   timeout |-> NoClause]

\* select
Select(i) ==
  LET t1 == TagNoCase("SELECT", i)
      s1 == ShouldBeSpace(t1.rest)
      ex == Word(FieldWords, s1.rest)
      s2 == ShouldBeSpace(ex.rest)
      t2 == TagNoCase("FROM", s2.rest)
      s3 == ShouldBeSpace(t2.rest)
      wh == Word(TargetWords, s3.rest)
      c1 == OptPreceded("cond", wh.rest)
      c2 == OptPreceded("split", c1.rest)
      c3 == OptPreceded("group", c2.rest)
      c4 == OptPreceded("order", c3.rest)
      c5 == OptPreceded("limit", c4.rest)
      c6 == OptPreceded("start", c5.rest)
      c7 == OptPreceded("fetch", c6.rest)
      c8 == OptPreceded("version", c7.rest)
      c9 == OptPreceded("timeout", c8.rest)
  IN  IF t1.ok /\ s1.ok /\ ex.ok /\ s2.ok /\ t2.ok /\ s3.ok /\ wh.ok
        THEN Parsed(c9.rest,
               [expr |-> ex.v, what |-> wh.v, cond |-> c1.v, split |-> c2.v,
                group |-> c3.v, order |-> c4.v, limit |-> c5.v, start |-> c6.v,
                fetch |-> c7.v, version |-> c8.v, timeout |-> c9.v])
        ELSE [ok |-> FALSE, rest |-> i, v |-> NoStatement]

\* Display of one clause: its keywords and its argument, single spaces.
RECURSIVE Spaced(_)
Spaced(ws) ==
  IF Len(ws) <= 1 THEN ws ELSE <<Head(ws), " ">> \o Spaced(Tail(ws))
ClauseText(c, w) == Spaced(ClauseWords(c) \o <<w>>)

\* write!(f, " {}", v) for a clause that is there
Written(c, o) == IF o.some THEN <<" ">> \o ClauseText(c, o.v) ELSE <<>>

\* A slip: START is written before LIMIT.
FormatStartFirst(st) ==
  <<"SELECT", " ", st.expr, " ", "FROM", " ", st.what>>
    \o Written("cond", st.cond) \o Written("split", st.split)
    \o Written("group", st.group) \o Written("order", st.order)
    \o Written("start", st.start) \o Written("limit", st.limit)
    \o Written("fetch", st.fetch) \o Written("version", st.version)
    \o Written("timeout", st.timeout)

\* impl fmt::Display for SelectStatement
Format(st) ==
  <<"SELECT", " ", st.expr, " ", "FROM", " ", st.what>>
    \o Written("cond", st.cond) \o Written("split", st.split)
    \o Written("group", st.group) \o Written("order", st.order)
    \o Written("limit", st.limit) \o Written("start", st.start)
    \o Written("fetch", st.fetch) \o Written("version", st.version)
    \o Written("timeout", st.timeout)

\* ------------------------------------------------------ the input texts
\* A text is written from a field, a target and, for every clause, its
\* argument or none; with its keywords in upper or in lower case; and with
\* its clauses in the order of the grammar or with LIMIT and START swapped.
Spelt(ws, lower) ==
  [k \in 1..Len(ws) |-> IF lower /\ k < Len(ws) THEN Lower(ws[k]) ELSE ws[k]]
WrittenAs(c, o, lower) ==
  IF o.some THEN <<" ">> \o Spaced(Spelt(ClauseWords(c) \o <<o.v>>, lower)) ELSE <<>>
TextOf(in) ==
  <<IF in.lower THEN "select" ELSE "SELECT", " ", in.expr, " ",
    IF in.lower THEN "from" ELSE "FROM", " ", in.what>>
    \o WrittenAs("cond", in.cond, in.lower) \o WrittenAs("split", in.split, in.lower)
    \o WrittenAs("group", in.group, in.lower) \o WrittenAs("order", in.order, in.lower)
    \o (IF in.swap
          THEN WrittenAs("start", in.start, in.lower) \o WrittenAs("limit", in.limit, in.lower)
          ELSE WrittenAs("limit", in.limit, in.lower) \o WrittenAs("start", in.start, in.lower))
    \o WrittenAs("fetch", in.fetch, in.lower) \o WrittenAs("version", in.version, in.lower)
    \o WrittenAs("timeout", in.timeout, in.lower)

Opt(set) == {NoClause} \cup {SomeClause(w) : w \in set}
Inputs ==
  { in \in [lower : {TRUE, FALSE}, swap : {TRUE, FALSE},
            expr : {"*"}, what : {"test", "order"},
            cond : Opt({"name"}), split : Opt({"name"}), group : Opt({"name"}),
            order : Opt({"name", "order"}), limit : Opt({"1"}), start : Opt({"2"}),
            fetch : Opt({"name"}), version : Opt({"2021"}), timeout : Opt({"5s"})] :
      in.swap => (in.limit.some /\ in.start.some) }

\* select(sql)
DoParse ==
  /\ rpc = "parse"
  /\ parsed' = Select(text)
  /\ rpc' = IF parsed'.ok THEN "format" ELSE "done"
  /\ UNCHANGED <<input, text, out>>
  /\ UNCHANGED <<mvars, svars>>

\* format!("{}", out)
DoFormat ==
  /\ rpc = "format"
  /\ out' = Format(parsed.v)
  /\ rpc' = "done"
  /\ UNCHANGED <<input, text, parsed>>
  /\ UNCHANGED <<mvars, svars>>

\* =================================================================
\* The specifications: each runs one part and keeps the other still.
\* =================================================================
InitMerge ==
  /\ \E id \in Ids, b \in Bodies : doc = [id |-> id, current |-> b, original |-> b]
  /\ data = NoData
  /\ mpc = "idle"
  /\ mk = 0
  /\ mval = Void
  /\ mlog = <<>>
  /\ mres = NoResult
  /\ mrun = 1
  /\ entry = doc
  /\ firstOut = EmptyObj
  /\ firstLog = <<>>
  /\ stm = "None"
  /\ sel = [n |-> 0, what |-> <<>>, split |-> FALSE, group |-> FALSE,
            order |-> FALSE, limit |-> None, start |-> None, fetch |-> FALSE]
  /\ copt = [perm |-> TRUE, futures |-> FALSE]
  /\ dopt = copt
  /\ cancelled = FALSE
  /\ it = NewIterator
  /\ spc = "off"
  /\ slog = <<>>
  /\ sres = NoValue
  /\ input = [lower |-> FALSE, swap |-> FALSE, expr |-> "*", what |-> "test",
              cond |-> NoClause, split |-> NoClause, group |-> NoClause,
              order |-> NoClause, limit |-> NoClause, start |-> NoClause,
              fetch |-> NoClause, version |-> NoClause, timeout |-> NoClause]
  /\ text = <<>>
  /\ rpc = "off"
  /\ parsed = [ok |-> FALSE, rest |-> <<>>, v |-> NoStatement]
  /\ out = <<>>

NextMerge ==
  \/ Call \/ Def1 \/ DataNone \/ SetTake \/ SetEnd \/ Eval \/ Apply
  \/ DataPatch \/ DataMerge \/ DataReplace \/ DataContent \/ DataOther
  \/ Def2 \/ Return \/ Rerun

SpecMerge == InitMerge /\ [][NextMerge]_vars

InitSelect ==
  /\ \E n \in 0..MaxTargets, sp \in Bools, gr \in Bools, od \in Bools,
        fe \in Bools, li \in Limits, st \in Starts :
       sel = [n |-> n, what |-> <<>>, split |-> sp, group |-> gr, order |-> od,
              limit |-> li, start |-> st, fetch |-> fe]
  /\ \E pm \in Bools, fu \in Bools : copt = [perm |-> pm, futures |-> fu]
  /\ dopt = copt
  /\ cancelled = FALSE
  /\ it = NewIterator
  /\ spc = "check"
  /\ slog = <<>>
  /\ sres = NoValue
  /\ doc = [id |-> Absent, current |-> EmptyObj, original |-> EmptyObj]
  /\ data = NoData
  /\ mpc = "off"
  /\ mk = 0
  /\ mval = Void
  /\ mlog = <<>>
  /\ mres = NoResult
  /\ mrun = 1
  /\ entry = doc
  /\ firstOut = EmptyObj
  /\ firstLog = <<>>
  /\ stm = "None"
  /\ input = [lower |-> FALSE, swap |-> FALSE, expr |-> "*", what |-> "test",
              cond |-> NoClause, split |-> NoClause, group |-> NoClause,
              order |-> NoClause, limit |-> NoClause, start |-> NoClause,
              fetch |-> NoClause, version |-> NoClause, timeout |-> NoClause]
  /\ text = <<>>
  /\ rpc = "off"
  /\ parsed = [ok |-> FALSE, rest |-> <<>>, v |-> NoStatement]
  /\ out = <<>>

NextSelect == Trip \/ SCheck \/ SWire \/ SLoop \/ SOutput

SpecSelect == InitSelect /\ [][NextSelect]_vars

InitRoundTrip ==
  /\ input \in Inputs
  /\ text = TextOf(input)
  /\ rpc = "parse"
  /\ parsed = [ok |-> FALSE, rest |-> <<>>, v |-> NoStatement]
  /\ out = <<>>
  /\ sel = [n |-> 0, what |-> <<>>, split |-> FALSE, group |-> FALSE,
            order |-> FALSE, limit |-> None, start |-> None, fetch |-> FALSE]
  /\ copt = [perm |-> TRUE, futures |-> FALSE]
  /\ dopt = copt
  /\ cancelled = FALSE
  /\ it = NewIterator
  /\ spc = "off"
  /\ slog = <<>>
  /\ sres = NoValue
  /\ doc = [id |-> Absent, current |-> EmptyObj, original |-> EmptyObj]
  /\ data = NoData
  /\ mpc = "off"
  /\ mk = 0
  /\ mval = Void
  /\ mlog = <<>>
  /\ mres = NoResult
  /\ mrun = 1
  /\ entry = doc
  /\ firstOut = EmptyObj
  /\ firstLog = <<>>
  /\ stm = "None"

NextRoundTrip == DoParse \/ DoFormat

SpecRoundTrip == InitRoundTrip /\ [][NextRoundTrip]_vars

\* =================================================================
\* Properties of Document::merge
\* =================================================================
Returned == mpc = "done"
ReturnedOk == mpc = "done" /\ mres = Ok

\* The k-th triple of the clause is an Equal triple whose expression computed
\* to void in the run that wrote log l.
EqualVoid(l, k) ==
  /\ k \in 1..Len(data.triples)
  /\ data.triples[k].op = "Equal"
  /\ \E i \in 1..Len(l) :
       l[i].step = "eval" /\ l[i].k = k /\ l[i].res = "ok" /\ l[i].v = Void

NumDefs(l) == Cardinality({i \in 1..Len(l) : l[i].step = "def"})

C3_OriginalUntouched == doc.original = entry.original

\* C3's case: merge has failed after current was rewritten.
C3_Witness ==
  /\ Returned /\ mres.tag = "Err"
  /\ doc.current # entry.current
  /\ doc.current # doc.original

\* C5: a call that failed is the last call merge made, merge has returned,
\* and it returned that call's error (so not Ok).
C5_FailFast ==
  \A i \in 1..Len(mlog) :
    mlog[i].res # "ok" =>
      /\ i = Len(mlog)
      /\ mpc = "done"
      /\ mres = Err(mlog[i].res)

\* C5's case: the application of the operator of the first triple of a
\* clause failed.
C5_Witness ==
  /\ Returned /\ mres.tag = "Err"
  /\ Len(mlog) = 3
  /\ mlog[3].step = "apply" /\ mlog[3].res # "ok"

\* C7: the first call of a run is the def pass, a run makes at most two def
\* passes, nothing follows the second, and a run that returned Ok made two.
C7_DefTwice ==
  /\ Len(mlog) >= 1 => mlog[1].step = "def"
  /\ NumDefs(mlog) <= 2
  /\ NumDefs(mlog) = 2 => mlog[Len(mlog)].step = "def"
  /\ ReturnedOk => NumDefs(mlog) = 2

\* C7's case: a run with a two-triple SetExpression has returned Ok.
C7_Witness ==
  /\ ReturnedOk /\ data.tag = "Set" /\ Len(data.triples) = 2
  /\ Len(mlog) = 6

\* C8: without a data clause the only calls are the def passes, current is
\* the entry document or the entry document with def applied once, and what
\* a successful run returns is the entry document with def applied once.
C8_NoDataClause ==
  (data.tag = "None" /\ mpc \notin {"idle"} /\ mres # Panic) =>
    /\ \A i \in 1..Len(mlog) : mlog[i].step = "def"
    /\ doc.current \in {entry.current, Def(entry.current, doc.id)}
    /\ ReturnedOk => doc.current = Def(entry.current, doc.id)

\* C8's case: a run without a data clause returned Ok and def changed the
\* document.
C8_Witness ==
  /\ ReturnedOk /\ data.tag = "None" /\ mrun = 1
  /\ Len(mlog) = 2
  /\ doc.current # entry.current

\* =================================================================
\* Properties of SelectStatement::compute
\* =================================================================
SReturned == spc = "done"
SSteps(name) == {i \in 1..Len(slog) : slog[i].step = name}

\* The values of the targets the loop has read.
TargetValues == [k \in 1..Len(sel.what) |-> TargetValue(sel.what[k], k)]

\* The targets whose computation succeeded.
Computed == {i \in SSteps("compute") : slog[i].res = "ok"}

\* C2: the check is the first call compute makes; when it fails compute has
\* returned the Permission error, and no target was computed, no source
\* prepared and output not called.
C2_PermissionFirst ==
  /\ \A i \in 1..Len(slog) :
       slog[i].step \in {"compute", "prepare", "output"} =>
         \E j \in 1..(i-1) : slog[j].step = "check"
  /\ (Check(copt) # "ok" /\ spc \notin {"check", "off"}) =>
       /\ spc = "done"
       /\ sres = ErrorOf("Permission")
       /\ SSteps("compute") = {} /\ SSteps("prepare") = {} /\ SSteps("output") = {}
       /\ it = NewIterator

\* C2's case: the check of a SELECT with two targets failed.
C2_Witness ==
  /\ SReturned /\ sres = ErrorOf("Permission") /\ sel.n = 2
  /\ SSteps("check") # {}

C6_OneSourcePerTarget ==
  /\ Len(it.sources) = Cardinality(Computed)
  /\ \A k \in 1..Len(it.sources) : it.sources[k] = TargetValues[k]
  /\ sres.tag = "Value" =>
       /\ it.sources = TargetValues
       /\ Len(it.sources) = sel.n
       /\ Stages(it) = <<>> => sres.rows = Accumulate(TargetValues)

\* C6's case: a value of another kind and then a table were prepared, and
\* the unshaped result was returned.
C6_Witness ==
  /\ SReturned /\ sres.tag = "Value" /\ Stages(it) = <<>>
  /\ sel.what = <<"Other", "Table">>
  /\ Len(sres.rows) = 3

\* C9: with no limit, or a limit of zero, the rows returned are the
\* rows from offset start() to the end, none when the offset is at or
\* beyond the end; no START clause is offset 0.
C9_StartWithoutLimit ==
  (SReturned /\ sres.tag = "Value" /\ StmtLimit(sel) = 0) =>
    /\ sres.rows = Drop(Sorted(it), StmtStart(sel))
    /\ StmtStart(sel) >= Len(Sorted(it)) => sres.rows = <<>>
    /\ ~sel.start.some => sres.rows = Sorted(it)

\* C9's case: START 2 LIMIT 0 over three rows has returned the third.
C9_Witness ==
  /\ SReturned /\ sres.tag = "Value"
  /\ sel.limit = Some(0) /\ sel.start = Some(2)
  /\ Len(Sorted(it)) = 3
  /\ Len(sres.rows) = 1

\* =================================================================
\* Properties of select and Display
\* =================================================================
\* C10 as stated: a text with its clauses in the order of the grammar and
\* single spaces is parsed whole and formatted back to itself.
C10_RoundTrip ==
  (rpc = "done" /\ ~input.swap) =>
    parsed.ok /\ parsed.rest = <<>> /\ out = text

\* C10 as amended: such a text is parsed whole, and is formatted back to
\* itself when its keywords are written in upper case, as Display writes
\* them; written in lower case it is formatted to its upper-case spelling.
C10_RoundTripUpperCase ==
  (rpc = "done" /\ ~input.swap) =>
    /\ parsed.ok /\ parsed.rest = <<>>
    /\ out = TextOf([input EXCEPT !.lower = FALSE])
    /\ ~input.lower => out = text

\* C10's case: SELECT * FROM order ... ORDER BY order ..., with all nine
\* clauses, was parsed and formatted.
C10_Witness ==
  /\ rpc = "done" /\ ~input.swap /\ ~input.lower
  /\ input.what = "order" /\ input.order = SomeClause("order")
  /\ \A k \in 1..Len(ClauseNames) : input[ClauseNames[k]].some
  /\ out = text /\ Len(out) > 7


\* The stages the clauses of the statement ask for, in their fixed order.
StmtStages(st) ==
     (IF st.split THEN <<"split">> ELSE <<>>)
  \o (IF st.group THEN <<"group">> ELSE <<>>)
  \o (IF st.order THEN <<"order">> ELSE <<>>)
  \o (IF st.start.some THEN <<"start">> ELSE <<>>)
  \o (IF st.limit.some THEN <<"limit">> ELSE <<>>)
  \o (IF st.fetch THEN <<"fetch">> ELSE <<>>)

\* C11: once the iterator is configured, the stages it runs are those of
\* the clauses the statement holds, each once and in the fixed order; and
\* the rows a SELECT with a fetch clause returns hold the fetched records.
C11_EveryClauseWired ==
  /\ spc \in {"loop", "done"} /\ SSteps("check") # {} /\ Check(copt) = "ok" =>
       Stages(it) = StmtStages(sel)
  /\ (SReturned /\ sres.tag = "Value" /\ sel.fetch) =>
       \A i \in 1..Len(sres.rows) : sres.rows[i].fetched


\* The positions of the log at which computing a target failed.
FailedTargets == {i \in SSteps("compute") : slog[i].res # "ok"}

\* C12: when computing the k-th target fails, compute has returned that very
\* error; the failed call is the last target computed, only the k - 1
\* targets before it were prepared, and output was never called.
C12_FirstTargetErrorReturned ==
  \A i \in FailedTargets :
    /\ SReturned
    /\ sres = ErrorOf(slog[i].res)
    /\ FailedTargets = {i}
    /\ \A j \in SSteps("compute") \cup SSteps("prepare") :
         /\ j <= i
         /\ j < i => slog[j].k < slog[i].k
    /\ Len(sel.what) = slog[i].k
    /\ Len(it.sources) = slog[i].k - 1
    /\ SSteps("output") = {}

\* The second of two targets fails after the first one was prepared.
C12_Witness ==
  /\ SReturned /\ sel.n = 2
  /\ \E i \in FailedTargets : slog[i].k = 2 /\ sres = ErrorOf("Storage")
  /\ Len(it.sources) = 1
  /\ SSteps("prepare") # {}


\* -----------------------------------------------------------------
\* Document::merge, the triples of a SetExpression clause
\* -----------------------------------------------------------------
\* current as the first def pass of this run left it.
AfterDef1 == Def(entry.current, doc.id)

\* The value the expression of the k-th triple computed to in this run.
Evaluated(k) ==
  LET i == CHOOSE j \in 1..Len(mlog) :
             mlog[j].step = "eval" /\ mlog[j].k = k /\ mlog[j].res = "ok"
  IN  mlog[i].v

\* The k-th triple of this run has been applied.
Applied(k) == mpc = "data" /\ data.tag = "Set" /\ mk = k

\* C13: an Inc triple with a numeric value on a numeric field adds the value
\* to the field and leaves every other field as it was; a Dec triple with
\* the same path and value right after it restores the field.
C13_IncThenDecRestores ==
  /\ Applied(1) =>
       LET x == data.triples[1]
           v == Evaluated(1)
       IN  (x.op = "Inc" /\ IsNum(v) /\ IsNum(AfterDef1[x.path])) =>
             doc.current =
               [AfterDef1 EXCEPT ![x.path] = Num(AfterDef1[x.path].n + v.n)]
  /\ Applied(2) =>
       LET x == data.triples[1]
           y == data.triples[2]
       IN  ( /\ x.op = "Inc" /\ y.op = "Dec" /\ x.path = y.path
             /\ IsNum(Evaluated(1)) /\ Evaluated(2) = Evaluated(1)
             /\ IsNum(AfterDef1[x.path]) ) =>
             doc.current = AfterDef1

\* {a: 1} under SET a += 2, a -= 2: both triples are applied and a is 1.
C13_Witness ==
  /\ Applied(2)
  /\ entry.current = Obj1("a", Num(1))
  /\ data.triples = <<[path |-> "a", op |-> "Inc", expr |-> Lit(Num(2))],
                      [path |-> "a", op |-> "Dec", expr |-> Lit(Num(2))]>>
  /\ Evaluated(1) = Num(2) /\ Evaluated(2) = Num(2)
  /\ doc.current["a"] = Num(1)

\* current after the first j triples of the clause, each computed against
\* and applied to the document the triples before it left.
RECURSIVE AfterTriples(_)
AfterTriples(j) ==
  IF j = 0 THEN AfterDef1
  ELSE LET x == data.triples[j]
           before == AfterTriples(j - 1)
       IN  ApplyOp(before, x.path, x.op, Compute(x.expr, before))

\* C14: the triples are taken in clause order, and the expression of the
\* k-th triple is computed against current as the first def pass and the
\* triples 1..k-1 have left it.
C14_TriplesInOrder ==
  LET evals == {i \in 1..Len(mlog) : mlog[i].step = "eval"}
  IN  /\ \A i \in evals :
           /\ mlog[i].k = Cardinality({j \in evals : j <= i})
           /\ mlog[i].res = "ok" =>
                mlog[i].v = Compute(data.triples[mlog[i].k].expr,
                                    AfterTriples(mlog[i].k - 1))
           /\ \A j \in 1..Len(mlog) :
                (mlog[j].step = "apply" /\ mlog[j].k < mlog[i].k) => j < i
      /\ mpc = "apply" => mval = Compute(data.triples[mk].expr, AfterTriples(mk - 1))
      /\ Applied(mk) => doc.current = AfterTriples(mk)

\* SET a = 2, a = a on a document whose a was not 2: the second expression
\* has been computed to the 2 the first triple stored.
C14_Witness ==
  /\ Applied(2)
  /\ data.triples = <<[path |-> "a", op |-> "Equal", expr |-> Lit(Num(2))],
                      [path |-> "a", op |-> "Equal", expr |-> FieldRef("a")]>>
  /\ entry.current["a"] # Num(2)
  /\ Evaluated(2) = Num(2)
  /\ doc.current["a"] = Num(2)


\* -----------------------------------------------------------------
\* Document::merge, the shapes it does not expect
\* -----------------------------------------------------------------
\* The triples of the clause, as far as read, whose operator is none of
\* =, += and -=.
OtherOps == {k \in 1..Len(data.triples) : data.triples[k].op \notin {"Equal", "Inc", "Dec"}}

\* merge has stopped on a shape it holds to be unreachable.
Unreachable == mpc = "done" /\ mres = Panic

\* C15 as stated: a merge that was given a statement that is neither Create
\* nor Update, a data clause outside Set, Patch, Merge, Replace and Content,
\* or a triple whose operator is none of =, += and -=, has stopped on the
\* unreachable shape whenever it has stopped.
C15_AlwaysUnreachable ==
  (Returned /\ (stm \notin {"Create", "Update"} \/ data.tag = "Other" \/ OtherOps # {})) =>
    mres = Panic

\* C15 as amended: merge never returns Ok over a shape it does not expect.
\* A statement that is neither Create nor Update stops merge before any
\* call is made; a data clause outside Set, Patch, Merge, Replace and
\* Content stops it before the second def pass; a triple whose operator is
\* none of =, += and -= is never applied or passed over.  merge stops on
\* the unreachable shape unless a fallible call before it (the first def
\* pass, the evaluation of the triple) has failed, whose error it returns.
C15_InvalidShapeStops ==
  /\ (mpc # "idle" /\ stm \notin {"Create", "Update"}) =>
       Unreachable /\ mlog = <<>> /\ doc = entry
  /\ (data.tag = "Other" /\ mpc \notin {"idle", "def1", "data"}) =>
       /\ mpc = "done" /\ mres # Ok
       /\ mres.tag # "Err" => mres = Panic
       /\ NumDefs(mlog) <= 1
  /\ \A k \in OtherOps :
       /\ mk = k /\ k = Len(data.triples)
       /\ \A i \in 1..Len(mlog) : ~(mlog[i].step = "apply" /\ mlog[i].k = k)
       /\ mpc \in {"eval", "apply", "done"}
       /\ mpc = "done" => (mres # Ok /\ (mres.tag # "Err" => mres = Panic))
  /\ ReturnedOk =>
       /\ stm \in {"Create", "Update"}
       /\ data.tag \in {"None", "Set", "Patch", "Merge", "Replace", "Content"}
       /\ OtherOps = {}

\* merge has stopped at the second triple of a clause, whose operator it
\* does not know, after the first triple was applied.
C15_Witness ==
  /\ Unreachable /\ stm = "Update" /\ data.tag = "Set"
  /\ OtherOps = {2}
  /\ \E i \in 1..Len(mlog) : mlog[i].step = "apply" /\ mlog[i].k = 1 /\ mlog[i].res = "ok"


\* -----------------------------------------------------------------
\* Document::merge, ReplaceExpression and ContentExpression
\* -----------------------------------------------------------------
\* C16: a merge with ReplaceExpression(v) and a merge with
\* ContentExpression(v) that return Ok leave the same current document, v
\* with the second def pass applied, whatever the document held before;
\* it has no field that v and the defaults do not supply.
C16_ReplaceIsContent ==
  (ReturnedOk /\ data.tag \in {"Replace", "Content"}) =>
    /\ doc.current = Def(data.val, doc.id)
    /\ \A f \in Fields :
         doc.current[f] # Absent =>
           (data.val[f] # Absent \/ (f = "id" /\ doc.id # Absent))
    /\ [i \in 1..Len(mlog) |-> mlog[i].step] = <<"def", "replace", "def">>

\* ContentExpression {b: 2} on {a: 1}: a is gone, b is there.
C16_Witness ==
  /\ ReturnedOk /\ mrun = 1 /\ data.tag = "Content"
  /\ entry.current = Obj1("a", Num(1))
  /\ data.val = Obj1("b", Num(2))
  /\ doc.current["a"] = Absent /\ doc.current["b"] = Num(2)


\* -----------------------------------------------------------------
\* SelectStatement::compute, the Options and the Runtime
\* -----------------------------------------------------------------
\* The signal was tripped before the i-th entry of the log was written.
TrippedBefore(i) == \E j \in 1..(i - 1) : slog[j].step = "trip"

\* C17: compute leaves the Options and the Runtime it was given as they
\* were.  The caller's Options are still those the check at entry saw; the
\* Options every target and the output were given are the caller's with
\* futures switched on; the signal is in the state its owner left it in.
C17_OptionsDerived ==
  /\ \A i \in SSteps("check") : slog[i].opt = copt
  /\ \A i \in SSteps("compute") \cup SSteps("prepare") \cup SSteps("output") :
       /\ slog[i].opt = Futures(copt, TRUE)
       /\ slog[i].opt.futures
       /\ slog[i].opt.perm = copt.perm
  /\ \A i \in 1..Len(slog) : slog[i].step # "trip" => slog[i].c = TrippedBefore(i)
  /\ cancelled = TrippedBefore(Len(slog) + 1)

\* A SELECT of two targets has returned a Value to a caller whose Options
\* have futures switched off; both targets and the output saw them on.
C17_Witness ==
  /\ SReturned /\ sres.tag = "Value" /\ sel.n = 2
  /\ ~copt.futures
  /\ Cardinality({i \in SSteps("compute") : slog[i].opt.futures}) = 2
  /\ \E i \in SSteps("output") : slog[i].opt.futures

====
